---------------------------- MODULE Spec2Model ----------------------------
(***************************************************************************)
(* Model of the dialogue-to-video engine of src/src/video.py:              *)
(*   - get_exact_sentence_timestamps: sentence alignment over the word     *)
(*     stream of the speech model, pairwise overlap/gap repair, final      *)
(*     clamp (AlignSpec);                                                  *)
(*   - render_final_video: the worker pool, the alignment lock, result     *)
(*     collection, final concatenation and cleanup (Spec);                 *)
(*   - process_conversation: the replay audio and its timeline             *)
(*     (PlaybackSpec);                                                     *)
(*   - several calls of render_final_video in one process (ProcessSpec);   *)
(* of the queue uploader of src/server_scripts/hetzner_youtube_uploader.py *)
(* (UploadSpec), and of the dialogue generation of src/src/llm.py          *)
(* (LlmSpec).                                                              *)
(*                                                                         *)
(* Times of the alignment are integers in quarter milliseconds, so that    *)
(* the two halvings a boundary can undergo (midpoint, gap / 2.0) are exact *)
(* for word times given in whole milliseconds.                             *)
(***************************************************************************)
EXTENDS Integers, Sequences, FiniteSets, TLC

VARIABLES
    \* get_exact_sentence_timestamps
    known_sentences,      \* the sentences, each the sequence of its clean words
    whisper_words,        \* the cleaned word stream: [text, start, end]
    sentence_indices,     \* history: sentence_to_whisper_indices after line 89
    raw_timestamps,       \* history: sentence_timestamps after line 124
    repaired_timestamps,  \* history: sentence_timestamps after line 146
    sentence_timestamps,  \* the list the function builds and returns
    alignPc               \* "idle" | "call" | "returned" | "renormalized"

alignVars == <<known_sentences, whisper_words, sentence_indices,
               raw_timestamps, repaired_timestamps, sentence_timestamps,
               alignPc>>

VARIABLES
    \* render_final_video
    dialogue_len,      \* per conversation: the number of dialogue lines
    taskPc,            \* per conversation: where its process_conversation is
    taskLine,          \* per conversation: the index of the running loop
    whisper_lock,      \* 0 when free, else the conversation holding it
    files,             \* the files on disk
    local_cleanup,     \* per conversation: its local_cleanup list
    temp_videos,       \* the result array, None where nothing is stored
    files_to_cleanup,  \* the main thread's cleanup list
    yielded,           \* the futures as_completed has handed out, in order
    final_concat_list, \* the lines written to final_concat.txt
    concat_invoked,    \* whether the final ffmpeg concat was run
    mainPc             \* where render_final_video is

renderVars == <<dialogue_len, taskPc, taskLine, whisper_lock, files,
                local_cleanup, temp_videos, files_to_cleanup, yielded,
                final_concat_list, concat_invoked, mainPc>>

VARIABLES
    \* process_conversation: the replay audio and its timeline
    timestamps,        \* the aligned range of each dialogue line
    orig_audio_len_ms, \* len(orig_audio)
    stretch_extra,     \* per line: frames the time-stretch output is off by
    new_audio,         \* the composite audio built so far, in frames
    new_timestamps,    \* the playback segments: [start, end, duration] in ms
    new_dialogue,      \* the line (0-based index) each segment carries
    is_repeated_flags, \* the isRepeated flag of each segment
    current_new_time,  \* the cursor, in ms
    pbLine,            \* the index of the line the loop is at
    concat_lines,      \* the lines of the instruction file built so far
    concat_current_time, \* current_time of the frame loop (line 380), in ms
    frameIdx,          \* the index of the segment the frame loop is at
    pbPc               \* "idle" | "rebuild" | "built" | "assembled"

playbackVars == <<timestamps, orig_audio_len_ms, stretch_extra, new_audio,
                  new_timestamps, new_dialogue, is_repeated_flags,
                  current_new_time, pbLine, concat_lines, concat_current_time,
                  frameIdx, pbPc>>

VARIABLES
    \* several calls of render_final_video in one process
    callPc,            \* per call: "not_called" | "running"
    call_lock,         \* per call: its own whisper_lock, 0 or the holding task
    threadPc           \* per call and task: where process_conversation is

processVars == <<callPc, call_lock, threadPc>>

VARIABLES
    \* process_queue, run again and again over one queue directory
    queue,             \* the files in QUEUE_DIR
    language,          \* per package: the language in its metadata
    service,           \* per package: how its uploads and removals end
    uploaded,          \* per package: the videos it has made on the channel
    files_by_language, \* the run's scan: per language the packages found
    todo,              \* the languages the run's loop has not reached yet
    runPc              \* "off" | "idle" | "running" | "exited"

uploaderVars == <<queue, language, service, uploaded, files_by_language,
                  todo, runPc>>

VARIABLES
    \* generate_video_content: one generate_conversation_dialogue per idea
    attempt,           \* per idea: the loop variable of the retry loop
    retry_delay,       \* per idea: the next sleep, in seconds
    errors,            \* per idea: history, the exceptions of its attempts
    dialogue,          \* per idea: what generate_conversation_dialogue gave
    ideaPc             \* per idea: where process_idea is

llmVars == <<attempt, retry_delay, errors, dialogue, ideaPc>>

vars == <<alignVars, renderVars, playbackVars, processVars, uploaderVars,
          llmVars>>

-----------------------------------------------------------------------------
(* Bounds and time literals *)

MaxSentences == 3
MaxTokens == 3

\* n milliseconds in the model's time unit (a quarter millisecond)
Ms(n) == 4 * n

Half(x) == x \div 2

Min(x, y) == IF x <= y THEN x ELSE y
Max(x, y) == IF x >= y THEN x ELSE y

SeqsUpTo(S, n) == UNION {[1..k -> S] : k \in 0..n}

Last(s) == s[Len(s)]

-----------------------------------------------------------------------------
(* difflib.SequenceMatcher(None, a, b), no junk, sequences under 200 items. *)
(* Indices are Python's: 0-based, ranges half open.                         *)

RECURSIVE MatchLen(_, _, _, _, _, _)
\* length of the common run of a[i:ahi] and b[j:bhi] starting at i, j
MatchLen(a, b, i, j, ahi, bhi) ==
    IF i < ahi /\ j < bhi /\ a[i + 1] = b[j + 1]
    THEN 1 + MatchLen(a, b, i + 1, j + 1, ahi, bhi)
    ELSE 0

\* the longest matching block in a[alo:ahi], b[blo:bhi]: of the longest ones
\* the one that starts earliest in a, and of those the earliest in b
FindLongestMatch(a, b, alo, ahi, blo, bhi) ==
    LET cand == {<<i, j, MatchLen(a, b, i, j, ahi, bhi)>> :
                     i \in alo..(ahi - 1), j \in blo..(bhi - 1)}
        pos == {c \in cand : c[3] > 0}
        Better(c, d) == \/ c[3] > d[3]
                        \/ c[3] = d[3] /\ c[1] < d[1]
                        \/ c[3] = d[3] /\ c[1] = d[1] /\ c[2] <= d[2]
    IN  IF pos = {} THEN <<alo, blo, 0>>
        ELSE CHOOSE c \in pos : \A d \in pos : Better(c, d)

RECURSIVE MatchingBlocksIn(_, _, _, _, _, _)
\* the matching blocks of a[alo:ahi], b[blo:bhi], sorted
MatchingBlocksIn(a, b, alo, ahi, blo, bhi) ==
    LET m == FindLongestMatch(a, b, alo, ahi, blo, bhi)
        i == m[1]
        j == m[2]
        k == m[3]
    IN  IF k = 0 THEN <<>>
        ELSE (IF alo < i /\ blo < j
              THEN MatchingBlocksIn(a, b, alo, i, blo, j) ELSE <<>>)
             \o <<m>>
             \o (IF i + k < ahi /\ j + k < bhi
                 THEN MatchingBlocksIn(a, b, i + k, ahi, j + k, bhi) ELSE <<>>)

RECURSIVE CollapseBlocks(_, _, _, _)
\* adjacent equal blocks merged into one (i1, j1, k1 is the block held back)
CollapseBlocks(blocks, i1, j1, k1) ==
    IF blocks = <<>>
    THEN IF k1 > 0 THEN <<<<i1, j1, k1>>>> ELSE <<>>
    ELSE LET h == Head(blocks)
         IN  IF i1 + k1 = h[1] /\ j1 + k1 = h[2]
             THEN CollapseBlocks(Tail(blocks), i1, j1, k1 + h[3])
             ELSE (IF k1 > 0 THEN <<<<i1, j1, k1>>>> ELSE <<>>)
                  \o CollapseBlocks(Tail(blocks), h[1], h[2], h[3])

get_matching_blocks(a, b) ==
    CollapseBlocks(MatchingBlocksIn(a, b, 0, Len(a), 0, Len(b)), 0, 0, 0)
        \o <<<<Len(a), Len(b), 0>>>>

RECURSIVE OpcodesFrom(_, _, _)
OpcodesFrom(blocks, i, j) ==
    IF blocks = <<>> THEN <<>>
    ELSE LET ai == Head(blocks)[1]
             bj == Head(blocks)[2]
             size == Head(blocks)[3]
             tag == IF i < ai /\ j < bj THEN "replace"
                    ELSE IF i < ai THEN "delete"
                    ELSE IF j < bj THEN "insert"
                    ELSE ""
         IN  (IF tag # "" THEN <<<<tag, i, ai, j, bj>>>> ELSE <<>>)
             \o (IF size > 0
                 THEN <<<<"equal", ai, ai + size, bj, bj + size>>>> ELSE <<>>)
             \o OpcodesFrom(Tail(blocks), ai + size, bj + size)

get_opcodes(a, b) == OpcodesFrom(get_matching_blocks(a, b), 0, 0)

-----------------------------------------------------------------------------
(* get_exact_sentence_timestamps *)

RECURSIVE TargetWordsFrom(_, _)
\* target_words_with_idx: (sentence index, word), sentence indices 0-based
TargetWordsFrom(sentences, i) ==
    IF i > Len(sentences) THEN <<>>
    ELSE [k \in 1..Len(sentences[i]) |-> <<i - 1, sentences[i][k]>>]
         \o TargetWordsFrom(sentences, i + 1)

\* every word tagged with the first sentence
TargetWordsUntagged(sentences) ==
    LET t == TargetWordsFrom(sentences, 1)
    IN  [k \in 1..Len(t) |-> <<0, t[k][2]>>]

target_words_with_idx(sentences) == TargetWordsFrom(sentences, 1)

\* the word indices (0-based) one opcode gives to each sentence, in order of k
RECURSIVE OpcodeAssign(_, _, _, _)
OpcodeAssign(s2w, op, targets, k) ==
    LET tag == op[1]
        i1 == op[2]
        i2 == op[3]
        j1 == op[4]
        j2 == op[5]
        sent_idx ==
            IF tag = "equal" THEN targets[i1 + k + 1][1]
            ELSE IF tag = "replace"
                 THEN targets[i1 + ((k * (i2 - i1)) \div (j2 - j1)) + 1][1]
            ELSE IF i1 < Len(targets) THEN targets[i1 + 1][1]
            ELSE Last(targets)[1]
    IN  IF tag = "delete" \/ k >= j2 - j1 THEN s2w
        ELSE OpcodeAssign(
                 [s2w EXCEPT ![sent_idx + 1] = Append(@, j1 + k)],
                 op, targets, k + 1)

RECURSIVE AssignAll(_, _, _)
AssignAll(s2w, ops, targets) ==
    IF ops = <<>> THEN s2w
    ELSE AssignAll(OpcodeAssign(s2w, Head(ops), targets, 0), Tail(ops), targets)

\* sentence_to_whisper_indices after the opcode loop (lines 69-89)
sentence_to_whisper_indices(sentences, words) ==
    LET targets == target_words_with_idx(sentences)
        target_word_texts == [k \in 1..Len(targets) |-> targets[k][2]]
        whisper_word_texts == [k \in 1..Len(words) |-> words[k].text]
    IN  AssignAll([i \in 1..Len(sentences) |-> <<>>],
                  get_opcodes(target_word_texts, whisper_word_texts),
                  targets)

RECURSIVE FallbackFrom(_, _, _)
\* lines 56-67: a 2.0 s slot per sentence, laid out from 0.0
FallbackFrom(sentences, i, current_time) ==
    IF i > Len(sentences) THEN <<>>
    ELSE <<[text |-> sentences[i], start |-> current_time,
            end |-> current_time + Ms(2000), duration |-> Ms(2000)]>>
         \o FallbackFrom(sentences, i + 1, current_time + Ms(2000))

RECURSIVE FallbackFromStale(_, _, _)
\* the fallback with the cursor advanced by the 1.0 s of the no-word slot
FallbackFromStale(sentences, i, current_time) ==
    IF i > Len(sentences) THEN <<>>
    ELSE <<[text |-> sentences[i], start |-> current_time,
            end |-> current_time + Ms(2000), duration |-> Ms(2000)]>>
         \o FallbackFromStale(sentences, i + 1, current_time + Ms(1000))

FallbackTimestampsStale(sentences) == FallbackFromStale(sentences, 1, 0)

FallbackTimestamps(sentences) == FallbackFrom(sentences, 1, 0)

RECURSIVE RawFrom(_, _, _, _, _)
\* lines 91-124: one raw range per sentence, appended to acc
RawFrom(sentences, words, s2w, i, acc) ==
    IF i > Len(sentences) THEN acc
    ELSE LET indices == s2w[i]
             last_end == IF acc # <<>> THEN Last(acc).end ELSE 0
             start0 == words[indices[1] + 1].start
             end0 == words[Last(indices) + 1].end
             start_time == IF acc # <<>> /\ start0 < Last(acc).start
                           THEN Last(acc).start ELSE start0
             end_time == IF acc # <<>> /\ end0 <= start_time
                         THEN start_time + Ms(500) ELSE end0
         IN  IF indices = <<>>
             THEN RawFrom(sentences, words, s2w, i + 1,
                      Append(acc, [text |-> sentences[i], start |-> last_end,
                                   end |-> last_end + Ms(1000),
                                   duration |-> Ms(1000)]))
             ELSE RawFrom(sentences, words, s2w, i + 1,
                      Append(acc, [text |-> sentences[i], start |-> start_time,
                                   end |-> end_time,
                                   duration |-> end_time - start_time]))

\* the raw ranges with the no-word slot as long as a fallback slot
RawTimestampsLongSlot(sentences, words) ==
    LET s2w == sentence_to_whisper_indices(sentences, words)
        r == RawFrom(sentences, words, s2w, 1, <<>>)
    IN  [i \in 1..Len(r) |->
            IF s2w[i] = <<>>
            THEN [r[i] EXCEPT !.end = r[i].start + Ms(2000),
                              !.duration = Ms(2000)]
            ELSE r[i]]

RawTimestamps(sentences, words) ==
    RawFrom(sentences, words, sentence_to_whisper_indices(sentences, words),
            1, <<>>)

\* the overlap split at the end of the earlier sentence
MidpointAtEnd(current_end, next_start) == current_end

\* line 134: midpoint = (current_end + next_start) / 2.0
Midpoint(current_end, next_start) == Half(current_end + next_start)

\* the padding without the halving of the gap
PaddingUnhalved(gap) == Min(Ms(100), gap)

\* line 142: padding = min(0.1, gap / 2.0)
Padding(gap) == Min(Ms(100), Half(gap))

RECURSIVE RepairFrom(_, _)
\* lines 129-146: the pair (i, i+1), then the later pairs
RepairFrom(ts, i) ==
    IF i >= Len(ts) THEN ts
    ELSE LET current_end == ts[i].end
             next_start == ts[i + 1].start
             gap == next_start - current_end
             padding == Padding(gap)
             new_end == IF current_end > next_start
                        THEN Midpoint(current_end, next_start)
                        ELSE current_end + padding
             new_start == IF current_end > next_start
                          THEN Midpoint(current_end, next_start)
                          ELSE next_start - padding
         IN  RepairFrom(
                 [ts EXCEPT ![i].end = new_end,
                            ![i].duration = new_end - ts[i].start,
                            ![i + 1].start = new_start],
                 i + 1)

RepairPairs(ts) == RepairFrom(ts, 1)

\* lines 148-157: the last duration recomputed, negative durations clamped
FinalClamp(ts) ==
    [i \in 1..Len(ts) |->
        LET d == IF i = Len(ts) THEN ts[i].end - ts[i].start
                 ELSE ts[i].duration
        IN  IF d < 0
            THEN [ts[i] EXCEPT !.duration = Ms(100), !.end = ts[i].start + Ms(100)]
            ELSE [ts[i] EXCEPT !.duration = d]]

\* the normalizer: lines 126-157
Normalize(ts) == FinalClamp(RepairPairs(ts))

Degenerate(sentences, words) ==
    target_words_with_idx(sentences) = <<>> \/ words = <<>>

get_exact_sentence_timestamps(sentences, words) ==
    IF Degenerate(sentences, words)
    THEN FallbackTimestamps(sentences)
    ELSE Normalize(RawTimestamps(sentences, words))

-----------------------------------------------------------------------------
(* AlignSpec: the function applied to bounded inputs *)

Words == {"a", "b"}
\* word ranges <<start, end>> in whole milliseconds
TokenRanges ==
    { <<Ms(0), Ms(0)>>, <<Ms(0), Ms(500)>>, <<Ms(0), Ms(600)>>,
      <<Ms(500), Ms(500)>>, <<Ms(500), Ms(600)>>, <<Ms(600), Ms(600)>> }

\* streams with overlapping, out-of-order and empty word times over
\* sentences of at most one word
TimingInputs ==
    \E n \in 0..MaxSentences, m \in 0..MaxTokens :
        /\ known_sentences \in [1..n -> {<<>>, <<"a">>}]
        /\ \E r \in [1..m -> TokenRanges] :
              whisper_words = [k \in 1..m |->
                  [text |-> "a", start |-> r[k][1], end |-> r[k][2]]]

\* word k of a stream spoken in order: [600k, 600k + 500] ms
SpokenAt(texts) ==
    [k \in 1..Len(texts) |->
        [text |-> texts[k], start |-> Ms(600 * (k - 1)),
         end |-> Ms(600 * (k - 1) + 500)]]

\* streams spoken in order over sentences of one or two words, with missed,
\* replaced and extra words
TextInputs ==
    \E n \in 0..MaxSentences, m \in 0..MaxTokens :
        /\ known_sentences \in [1..n -> SeqsUpTo(Words, 2) \ {<<>>}]
        /\ \E t \in [1..m -> Words \cup {"x"}] : whisper_words = SpokenAt(t)

RenderIdle ==
    /\ dialogue_len = <<>>
    /\ taskPc = <<>>
    /\ taskLine = <<>>
    /\ whisper_lock = 0
    /\ files = {}
    /\ local_cleanup = <<>>
    /\ temp_videos = <<>>
    /\ files_to_cleanup = <<>>
    /\ yielded = <<>>
    /\ final_concat_list = <<>>
    /\ concat_invoked = FALSE
    /\ mainPc = "idle"

PlaybackIdle ==
    /\ timestamps = <<>>
    /\ orig_audio_len_ms = 0
    /\ stretch_extra = <<>>
    /\ new_audio = 0
    /\ new_timestamps = <<>>
    /\ new_dialogue = <<>>
    /\ is_repeated_flags = <<>>
    /\ current_new_time = 0
    /\ pbLine = 0
    /\ concat_lines = <<>>
    /\ concat_current_time = 0
    /\ frameIdx = 0
    /\ pbPc = "idle"

ProcessIdle ==
    /\ callPc = <<>>
    /\ call_lock = <<>>
    /\ threadPc = <<>>

UploaderIdle ==
    /\ queue = {}
    /\ language = <<>>
    /\ service = <<>>
    /\ uploaded = <<>>
    /\ files_by_language = <<>>
    /\ todo = {}
    /\ runPc = "off"

LlmIdle ==
    /\ attempt = <<>>
    /\ retry_delay = <<>>
    /\ errors = <<>>
    /\ dialogue = <<>>
    /\ ideaPc = <<>>

AlignInit ==
    /\ UploaderIdle
    /\ LlmIdle
    /\ RenderIdle
    /\ PlaybackIdle
    /\ ProcessIdle
    /\ (TimingInputs \/ TextInputs)
    /\ sentence_indices = <<>>
    /\ raw_timestamps = <<>>
    /\ repaired_timestamps = <<>>
    /\ sentence_timestamps = <<>>
    /\ alignPc = "call"

\* one call of get_exact_sentence_timestamps (lines 24-159)
GetExactSentenceTimestamps ==
    /\ alignPc = "call"
    /\ sentence_timestamps' =
           get_exact_sentence_timestamps(known_sentences, whisper_words)
    /\ sentence_indices' =
           IF Degenerate(known_sentences, whisper_words) THEN <<>>
           ELSE sentence_to_whisper_indices(known_sentences, whisper_words)
    /\ raw_timestamps' =
           IF Degenerate(known_sentences, whisper_words) THEN <<>>
           ELSE RawTimestamps(known_sentences, whisper_words)
    /\ repaired_timestamps' =
           IF Degenerate(known_sentences, whisper_words) THEN <<>>
           ELSE RepairPairs(RawTimestamps(known_sentences, whisper_words))
    /\ alignPc' = "returned"
    /\ UNCHANGED <<known_sentences, whisper_words, renderVars, playbackVars, uploaderVars, llmVars,
                   processVars>>

\* the normalizer run again over its own output (lines 126-157)
Renormalize ==
    /\ alignPc = "returned"
    /\ ~Degenerate(known_sentences, whisper_words)
    /\ sentence_timestamps' = Normalize(sentence_timestamps)
    /\ alignPc' = "renormalized"
    /\ UNCHANGED <<known_sentences, whisper_words, sentence_indices,
                   raw_timestamps, repaired_timestamps, renderVars,
                   playbackVars, uploaderVars, llmVars, processVars>>

AlignNext == GetExactSentenceTimestamps \/ Renormalize

AlignSpec == AlignInit /\ [][AlignNext]_vars

-----------------------------------------------------------------------------
(* render_final_video: worker pool, alignment lock, collection, cleanup *)

NumConvs == 3
MaxWorkers == 2
MaxLines == 1

Convs == 1..NumConvs
None == [kind |-> "None", conv |-> 0, line |-> 0]

File(kind, c, i) == [kind |-> kind, conv |-> c, line |-> i]
AudioPath(c) == File("audio", c, 0)                \* item["audio_path"]
BgPath(c) == File("bg", c, 0)                      \* item["bg_path"]
TempIn(c, i) == File("temp_audio_in", c, i)        \* line 322
TempOut(c, i) == File("temp_audio_out", c, i)      \* line 323
SpacedAudioPath(c) == File("spaced_audio", c, 0)   \* line 367
FramePathShared(c, i) == File("temp_frame", 0, i)  \* one name for all tasks
FramePath(c, i) == File("temp_frame", c, i)        \* line 406
ConcatFilePath(c) == File("concat", c, 0)          \* line 428
ConvOutput(c) == File("temp_conv", c, 0)           \* line 434
FinalConcatList == File("final_concat", 0, 0)      \* line 463
OutputPath == File("final_video", 0, 0)            \* line 238

\* the artifacts a call creates on the way to the final video
IntermediateKinds == {"temp_audio_in", "temp_audio_out", "spaced_audio",
                      "temp_frame", "concat", "temp_conv", "final_concat"}

\* src/config.py, src/tts.py:181, src/image.py:27: everything but the final
\* video lies in OUTPUT_DIR
InOutputDir(f) == f.kind # "final_video"

Range(s) == {s[k] : k \in DOMAIN s}

Running(pc) == pc \notin {"unsubmitted", "pending", "done", "failed"}
Finished(pc) == pc \in {"done", "failed"}

\* `with whisper_lock:` may enter
LockIgnored(lock) == TRUE

LockFree(lock) == lock = 0

\* the lock still held after the with block
LockKept(holder) == holder

\* line 262: leaving the with block, by return or by exception, frees the lock
LockReleased(holder) == 0

\* future.result() re-raises the exception of a failed task
ResultNeverRaises(pc) == FALSE

ResultRaises(pc) == pc = "failed"

\* the result stored at the end of the list (completion order)
StoreResultAppended(tv, idx, conv_output) ==
    LET k == CHOOSE k \in DOMAIN tv : tv[k] = None /\ \A j \in 1..(k - 1) : tv[j] # None
    IN  [tv EXCEPT ![k] = conv_output]

\* temp_videos[idx] = conv_output
StoreResult(tv, idx, conv_output) == [tv EXCEPT ![idx] = conv_output]

\* the encoder's exit status decides the task's outcome
EncoderChecked(ok) == IF ok THEN "done" ELSE "failed"

\* lines 450-453: the exit status of subprocess.run is dropped, the task
\* returns its clip path
EncoderResult(ok) == "done"

\* the with block left while queued tasks have not run
ShutdownCancels(pcs) == \A c \in Convs : ~Running(pcs[c])

\* line 455: the executor's __exit__ is shutdown(wait=True); queued tasks
\* are not cancelled, all of them are waited for
ShutdownWaits(pcs) == \A c \in Convs : Finished(pcs[c])

\* the loop left after the first future
SomeYielded(y) == y # <<>>

\* lines 457-460: as_completed is exhausted when every future was handed out
AllYielded(y) == Range(y) = Convs

AlignIdle ==
    /\ known_sentences = <<>>
    /\ whisper_words = <<>>
    /\ sentence_indices = <<>>
    /\ raw_timestamps = <<>>
    /\ repaired_timestamps = <<>>
    /\ sentence_timestamps = <<>>
    /\ alignPc = "idle"

InputFiles == {AudioPath(c) : c \in Convs} \cup {BgPath(c) : c \in Convs}

Init ==
    /\ AlignIdle
    /\ PlaybackIdle
    /\ ProcessIdle
    /\ UploaderIdle
    /\ LlmIdle
    /\ \E n \in 0..MaxLines : dialogue_len = [c \in Convs |-> n]
    /\ taskPc = [c \in Convs |-> "unsubmitted"]
    /\ taskLine = [c \in Convs |-> 0]
    /\ whisper_lock = 0
    \* the inputs exist, but for at most one that is missing
    /\ \E missing \in {{}} \cup {{f} : f \in InputFiles} :
          files = InputFiles \ missing
    /\ local_cleanup = [c \in Convs |-> <<>>]
    /\ temp_videos = [c \in Convs |-> None]       \* line 240
    /\ files_to_cleanup = <<>>                    \* line 241
    /\ yielded = <<>>
    /\ final_concat_list = <<>>
    /\ concat_invoked = FALSE
    /\ mainPc = "submit"

\* line 456: executor.submit, in input order
Submit(c) ==
    /\ mainPc = "submit"
    /\ taskPc[c] = "unsubmitted"
    /\ \A d \in Convs : d < c => taskPc[d] # "unsubmitted"
    /\ taskPc' = [taskPc EXCEPT ![c] = "pending"]
    /\ mainPc' = IF c = NumConvs THEN "collect" ELSE "submit"
    /\ UNCHANGED <<dialogue_len, taskLine, whisper_lock, files, local_cleanup,
                   temp_videos, files_to_cleanup, yielded, final_concat_list,
                   concat_invoked>>
    /\ UNCHANGED <<alignVars, playbackVars, uploaderVars, llmVars, processVars>>

\* a free worker of the pool (line 455) takes the oldest pending task and
\* runs lines 247-261: the inputs go on the cleanup list, the background is
\* opened (raises when it is missing)
StartTask(c) ==
    /\ taskPc[c] = "pending"
    /\ \A d \in Convs : d < c => taskPc[d] \notin {"unsubmitted", "pending"}
    /\ Cardinality({d \in Convs : Running(taskPc[d])}) < MaxWorkers
    /\ local_cleanup' = [local_cleanup EXCEPT ![c] = <<AudioPath(c), BgPath(c)>>]
    /\ taskPc' = [taskPc EXCEPT
                    ![c] = IF BgPath(c) \in files THEN "wait_lock" ELSE "failed"]
    /\ UNCHANGED <<dialogue_len, taskLine, whisper_lock, files, temp_videos,
                   files_to_cleanup, yielded, final_concat_list, concat_invoked,
                   mainPc>>
    /\ UNCHANGED <<alignVars, playbackVars, uploaderVars, llmVars, processVars>>

\* line 262: with whisper_lock
AcquireLock(c) ==
    /\ taskPc[c] = "wait_lock"
    /\ LockFree(whisper_lock)
    /\ whisper_lock' = c
    /\ taskPc' = [taskPc EXCEPT ![c] = "aligning"]
    /\ UNCHANGED <<dialogue_len, taskLine, files, local_cleanup, temp_videos,
                   files_to_cleanup, yielded, final_concat_list, concat_invoked,
                   mainPc>>
    /\ UNCHANGED <<alignVars, playbackVars, uploaderVars, llmVars, processVars>>

\* lines 263-281: the alignment returns or raises (the audio cannot be
\* read), the with block releases the lock either way; then the audio is loaded
Align(c) ==
    /\ taskPc[c] = "aligning"
    /\ whisper_lock' = LockReleased(whisper_lock)
    /\ taskPc' = [taskPc EXCEPT
                    ![c] = IF AudioPath(c) \in files THEN "rebuild" ELSE "failed"]
    /\ taskLine' = [taskLine EXCEPT ![c] = 0]
    /\ UNCHANGED <<dialogue_len, files, local_cleanup, temp_videos,
                   files_to_cleanup, yielded, final_concat_list, concat_invoked,
                   mainPc>>
    /\ UNCHANGED <<alignVars, playbackVars, uploaderVars, llmVars, processVars>>

\* lines 283-334: the line's clip is exported and ffmpeg atempo is run; its
\* exit status is not looked at, the output exists or not
StretchLine(c) ==
    /\ taskPc[c] = "rebuild"
    /\ taskLine[c] < dialogue_len[c]
    /\ \E ok \in BOOLEAN :
          files' = files \cup {TempIn(c, taskLine[c])}
                         \cup (IF ok THEN {TempOut(c, taskLine[c])} ELSE {})
    /\ taskPc' = [taskPc EXCEPT ![c] = "slow_load"]
    /\ UNCHANGED <<dialogue_len, taskLine, whisper_lock, local_cleanup,
                   temp_videos, files_to_cleanup, yielded, final_concat_list,
                   concat_invoked, mainPc>>
    /\ UNCHANGED <<alignVars, playbackVars, uploaderVars, llmVars, processVars>>

\* lines 336-359: the slow clip is loaded (raises when ffmpeg left none), the
\* two temporaries are removed
LoadSlow(c) ==
    /\ taskPc[c] = "slow_load"
    /\ IF TempOut(c, taskLine[c]) \in files
       THEN /\ files' = files \ {TempIn(c, taskLine[c]), TempOut(c, taskLine[c])}
            /\ taskLine' = [taskLine EXCEPT ![c] = @ + 1]
            /\ taskPc' = [taskPc EXCEPT ![c] = "rebuild"]
       ELSE /\ taskPc' = [taskPc EXCEPT ![c] = "failed"]
            /\ UNCHANGED <<files, taskLine>>
    /\ UNCHANGED <<dialogue_len, whisper_lock, local_cleanup, temp_videos,
                   files_to_cleanup, yielded, final_concat_list, concat_invoked,
                   mainPc>>
    /\ UNCHANGED <<alignVars, playbackVars, uploaderVars, llmVars, processVars>>

\* lines 361-431: the composite audio is exported, one frame is saved per
\* entry of the doubled dialogue, the instruction file is written
WriteFrames(c) ==
    /\ taskPc[c] = "rebuild"
    /\ taskLine[c] = dialogue_len[c]
    /\ LET frames == [i \in 1..(2 * dialogue_len[c]) |-> FramePath(c, i - 1)]
           created == <<SpacedAudioPath(c)>> \o frames \o <<ConcatFilePath(c)>>
       IN  /\ files' = files \cup Range(created)
           /\ local_cleanup' = [local_cleanup EXCEPT ![c] = @ \o created]
    /\ taskPc' = [taskPc EXCEPT ![c] = "encode"]
    /\ UNCHANGED <<dialogue_len, taskLine, whisper_lock, temp_videos,
                   files_to_cleanup, yielded, final_concat_list, concat_invoked,
                   mainPc>>
    /\ UNCHANGED <<alignVars, playbackVars, uploaderVars, llmVars, processVars>>

\* lines 433-451: the encoder is run, its exit status is not looked at; the
\* clip path is returned whether the clip exists or not
RunEncoder(c) ==
    /\ taskPc[c] = "encode"
    /\ \E ok \in BOOLEAN :
          /\ files' = files \cup (IF ok THEN {ConvOutput(c)} ELSE {})
          /\ taskPc' = [taskPc EXCEPT ![c] = EncoderResult(ok)]
    /\ local_cleanup' = [local_cleanup EXCEPT ![c] = Append(@, ConvOutput(c))]
    /\ UNCHANGED <<dialogue_len, taskLine, whisper_lock, temp_videos,
                   files_to_cleanup, yielded, final_concat_list, concat_invoked,
                   mainPc>>
    /\ UNCHANGED <<alignVars, playbackVars, uploaderVars, llmVars, processVars>>

\* lines 457-460: as_completed hands out a finished future; its result is
\* stored by index, or its exception leaves the loop and the with block
Collect(c) ==
    /\ mainPc = "collect"
    /\ c \notin Range(yielded)
    /\ Finished(taskPc[c])
    /\ yielded' = Append(yielded, c)
    /\ IF ResultRaises(taskPc[c])
       THEN /\ mainPc' = "shutdown"
            /\ UNCHANGED <<temp_videos, files_to_cleanup>>
       ELSE /\ temp_videos' = StoreResult(temp_videos, c, ConvOutput(c))
            /\ files_to_cleanup' = files_to_cleanup \o local_cleanup[c]
            /\ UNCHANGED mainPc
    /\ UNCHANGED <<dialogue_len, taskPc, taskLine, whisper_lock, files,
                   local_cleanup, final_concat_list, concat_invoked>>
    /\ UNCHANGED <<alignVars, playbackVars, uploaderVars, llmVars, processVars>>

\* line 455: leaving the with block on an exception waits for every task,
\* then the exception leaves render_final_video
Shutdown ==
    /\ mainPc = "shutdown"
    /\ ShutdownWaits(taskPc)
    /\ mainPc' = "raised"
    /\ UNCHANGED <<dialogue_len, taskPc, taskLine, whisper_lock, files,
                   local_cleanup, temp_videos, files_to_cleanup, yielded,
                   final_concat_list, concat_invoked>>
    /\ UNCHANGED <<alignVars, playbackVars, uploaderVars, llmVars, processVars>>

\* lines 462-467: every future was handed out; the list file is written
WriteFinalList ==
    /\ mainPc = "collect"
    /\ AllYielded(yielded)
    /\ final_concat_list' = [k \in Convs |-> temp_videos[k]]
    /\ files' = files \cup {FinalConcatList}
    /\ files_to_cleanup' = Append(files_to_cleanup, FinalConcatList)
    /\ mainPc' = "concat"
    /\ UNCHANGED <<dialogue_len, taskPc, taskLine, whisper_lock, local_cleanup,
                   temp_videos, yielded, concat_invoked>>
    /\ UNCHANGED <<alignVars, playbackVars, uploaderVars, llmVars, processVars>>

\* lines 469-478: the stream-copy concat is run, its exit status is not looked
\* at; it can write the video only when every clip it names exists
RunConcat ==
    /\ mainPc = "concat"
    /\ concat_invoked' = TRUE
    /\ \E ok \in BOOLEAN :
          files' = files \cup (IF ok /\ Range(final_concat_list) \subseteq files
                               THEN {OutputPath} ELSE {})
    /\ mainPc' = "cleanup"
    /\ UNCHANGED <<dialogue_len, taskPc, taskLine, whisper_lock, local_cleanup,
                   temp_videos, files_to_cleanup, yielded, final_concat_list>>
    /\ UNCHANGED <<alignVars, playbackVars, uploaderVars, llmVars, processVars>>

\* lines 480-496: the listed files are removed, OUTPUT_DIR is emptied, the
\* output path is returned
Cleanup ==
    /\ mainPc = "cleanup"
    /\ files' = {f \in files \ Range(files_to_cleanup) : ~InOutputDir(f)}
    /\ mainPc' = "returned"
    /\ UNCHANGED <<dialogue_len, taskPc, taskLine, whisper_lock, local_cleanup,
                   temp_videos, files_to_cleanup, yielded, final_concat_list,
                   concat_invoked>>
    /\ UNCHANGED <<alignVars, playbackVars, uploaderVars, llmVars, processVars>>



TaskStep(c) ==
    \/ StartTask(c) \/ AcquireLock(c) \/ Align(c)
    \/ StretchLine(c) \/ LoadSlow(c) \/ WriteFrames(c) \/ RunEncoder(c)

Next ==
    \/ \E c \in Convs : Submit(c)
    \/ \E c \in Convs : TaskStep(c)
    \/ \E c \in Convs : Collect(c)
    \/ Shutdown
    \/ WriteFinalList
    \/ RunConcat
    \/ Cleanup

Spec == Init /\ [][Next]_vars

\* the worker threads are scheduled and every step of a task ends: the speech
\* model returns or raises, the external processes exit
FairSpec == Spec /\ \A c \in Convs : WF_vars(TaskStep(c))

-----------------------------------------------------------------------------
(* process_conversation, lines 266-377: the replay audio and its timeline.  *)
(* The cursor is in milliseconds, the audio in frames.                      *)

MaxReplayLines == 2
LongDialogue == 22
FramesPerMs == 24

\* int(ts * 1000) of a time in quarter milliseconds
IntMs(t) == t \div 4

\* Python's round(frames / FramesPerMs): to the nearest, ties to even
RoundMs(frames) ==
    LET q == frames \div FramesPerMs
        r == frames % FramesPerMs
    IN  IF 2 * r < FramesPerMs THEN q
        ELSE IF 2 * r > FramesPerMs THEN q + 1
        ELSE IF q % 2 = 0 THEN q ELSE q + 1

\* len(segment): the length of an audio segment in whole milliseconds
LenMs(frames) == RoundMs(frames)

\* lines 287-298: the frames of orig_audio[start_ms:end_ms]
SentenceAudio(ts, len_ms) ==
    LET start_ms == IntMs(ts.start)
        end0 == IntMs(ts.end)
        end1 == IF end0 <= start_ms THEN start_ms + 1000 ELSE end0
        end_ms == IF end1 > len_ms THEN len_ms ELSE end1
    IN  FramesPerMs * Max(0, Min(end_ms, len_ms) - Min(start_ms, len_ms))

\* lines 319-336: the clip stretched by atempo=0.70, off by `extra` frames
SlowAudio(sentence_audio, extra) == (sentence_audio * 10) \div 7 + extra

\* the two segments with the slow one starting before the 1.0 s pause
LineSegmentsNoPause(cursor, duration, slow_duration) ==
    << [start |-> cursor, end |-> cursor + duration, duration |-> duration],
       [start |-> cursor + duration, end |-> cursor + duration + slow_duration,
        duration |-> slow_duration] >>

\* lines 304-308 and 347-351: the two segments of a line from the cursor
LineSegments(cursor, duration, slow_duration) ==
    << [start |-> cursor, end |-> cursor + duration, duration |-> duration],
       [start |-> cursor + duration + 1000,
        end |-> cursor + duration + 1000 + slow_duration,
        duration |-> slow_duration] >>

ReplayRanges ==
    { [start |-> Ms(0), end |-> Ms(700)],
      [start |-> Ms(100), end |-> Ms(130)],
      [start |-> Ms(700), end |-> Ms(700)],
      [start |-> Ms(1000) + 2, end |-> Ms(1700) + 3],
      [start |-> Ms(1500), end |-> Ms(9000)] }
StretchExtras == {0, 11, 13}

\* short dialogues with every mix of ranges and stretch results
ShortReplay ==
    \E n \in 0..MaxReplayLines :
        /\ timestamps \in [1..n -> ReplayRanges]
        /\ stretch_extra \in [1..n -> StretchExtras]

\* long dialogues of equal lines
LongReplay ==
    \E n \in 0..LongDialogue, x \in StretchExtras :
        /\ timestamps = [k \in 1..n |-> [start |-> Ms(0), end |-> Ms(700)]]
        /\ stretch_extra = [k \in 1..n |-> x]

PlaybackInit ==
    /\ AlignIdle
    /\ RenderIdle
    /\ ProcessIdle
    /\ UploaderIdle
    /\ LlmIdle
    /\ (ShortReplay \/ LongReplay)
    /\ orig_audio_len_ms = 2000
    /\ new_audio = 0                \* line 277
    /\ new_timestamps = <<>>
    /\ new_dialogue = <<>>
    /\ is_repeated_flags = <<>>
    /\ current_new_time = 0
    /\ pbLine = 0
    /\ concat_lines = <<>>          \* line 379
    /\ concat_current_time = 0
    /\ frameIdx = 0
    /\ pbPc = "rebuild"

\* one pass of the loop of lines 283-359
RebuildLine ==
    /\ pbPc = "rebuild"
    /\ pbLine < Len(timestamps)
    /\ LET sentence_audio == SentenceAudio(timestamps[pbLine + 1], orig_audio_len_ms)
           duration == LenMs(sentence_audio)
           slow_audio == SlowAudio(sentence_audio, stretch_extra[pbLine + 1])
           slow_duration == LenMs(slow_audio)
       IN  /\ new_timestamps' = new_timestamps
                  \o LineSegments(current_new_time, duration, slow_duration)
           /\ new_dialogue' = new_dialogue \o <<pbLine, pbLine>>
           /\ is_repeated_flags' = is_repeated_flags \o <<FALSE, TRUE>>
           /\ new_audio' = new_audio + sentence_audio + 1000 * FramesPerMs
                               + slow_audio + 2000 * FramesPerMs
           /\ current_new_time' = current_new_time + duration + 1000
                                      + slow_duration + 2000
    /\ pbLine' = pbLine + 1
    /\ UNCHANGED <<timestamps, orig_audio_len_ms, stretch_extra, pbPc,
                   concat_lines, concat_current_time, frameIdx,
                   alignVars, renderVars, processVars,
                   uploaderVars, llmVars>>

\* lines 361-377: the trailing silence
FinishAudio ==
    /\ pbPc = "rebuild"
    /\ pbLine = Len(timestamps)
    /\ new_audio' = new_audio + 500 * FramesPerMs
    /\ current_new_time' = current_new_time + 500
    /\ pbPc' = "built"
    /\ UNCHANGED <<timestamps, orig_audio_len_ms, stretch_extra, new_timestamps,
                   new_dialogue, is_repeated_flags, pbLine, concat_lines,
                   concat_current_time, frameIdx, alignVars, renderVars, processVars,
                   uploaderVars, llmVars>>

\* the instruction file, line by line: "file '<image>'" and "duration <s>",
\* the duration written with three decimals, that is in whole milliseconds
FileLine(image) == [kind |-> "file", image |-> image, ms |-> 0]
DurationLine(ms) == [kind |-> "duration", image |-> None, ms |-> ms]

\* the background and the frames of the conversation at hand
BgImage == BgPath(1)
FrameImage(i) == FramePath(1, i)

\* lines 392 and 420: max(0.001, later - earlier)
GapDuration(earlier, later) == Max(1, later - earlier)

\* the still held for the length of the segment, however short
BubbleDurationUnclamped(start_time, end_time) == end_time - start_time

\* line 397: max(0.1, end_time - start_time)
BubbleDuration(start_time, end_time) == Max(100, end_time - start_time)

\* no background after the last segment
NoGapAfterLast(now, total_duration) == FALSE

\* line 419: current_time < total_duration - 0.001
GapAfterLast(now, total_duration) == now < total_duration - 1

\* one pass of the loop of lines 383-415
AssembleSegment ==
    /\ pbPc = "built"
    /\ frameIdx < Len(new_timestamps)
    /\ LET ts == new_timestamps[frameIdx + 1]
           start_time == ts.start
           end_time == ts.end
           gap == IF start_time > concat_current_time
                  THEN << FileLine(BgImage),
                          DurationLine(GapDuration(concat_current_time,
                                                   start_time)) >>
                  ELSE <<>>
           bubble_duration == BubbleDuration(start_time, end_time)
           bubble == IF bubble_duration > 0
                     THEN << FileLine(FrameImage(frameIdx)),
                             DurationLine(bubble_duration) >>
                     ELSE <<>>
       IN  /\ concat_lines' = concat_lines \o gap \o bubble
           /\ concat_current_time' = end_time
    /\ frameIdx' = frameIdx + 1
    /\ UNCHANGED <<timestamps, orig_audio_len_ms, stretch_extra, new_audio,
                   new_timestamps, new_dialogue, is_repeated_flags,
                   current_new_time, pbLine, pbPc, alignVars, renderVars, processVars,
                   uploaderVars, llmVars>>

\* lines 417-431: the background until the audio ends, the last image once
\* more, the file written
WriteConcatFile ==
    /\ pbPc = "built"
    /\ frameIdx = Len(new_timestamps)
    /\ LET total_duration == current_new_time
           gap == IF GapAfterLast(concat_current_time, total_duration)
                  THEN << FileLine(BgImage),
                          DurationLine(GapDuration(concat_current_time,
                                                   total_duration)) >>
                  ELSE <<>>
       IN  concat_lines' = concat_lines \o gap \o <<FileLine(BgImage)>>
    /\ pbPc' = "assembled"
    /\ UNCHANGED <<timestamps, orig_audio_len_ms, stretch_extra, new_audio,
                   new_timestamps, new_dialogue, is_repeated_flags,
                   current_new_time, pbLine, concat_current_time, frameIdx,
                   alignVars, renderVars, processVars,
                   uploaderVars, llmVars>>

PlaybackNext ==
    RebuildLine \/ FinishAudio \/ AssembleSegment \/ WriteConcatFile

PlaybackSpec == PlaybackInit /\ [][PlaybackNext]_vars

-----------------------------------------------------------------------------
(* Several calls of render_final_video running in one process: app.py:204    *)
(* runs in the script thread of each browser session, all sessions sharing   *)
(* the module-level whisper_model of line 22.                                *)

NumCalls == 2
TasksPerCall == 2

Calls == 1..NumCalls
CallTasks == 1..TasksPerCall

ProcessInit ==
    /\ AlignIdle
    /\ RenderIdle
    /\ PlaybackIdle
    /\ UploaderIdle
    /\ LlmIdle
    /\ callPc = [r \in Calls |-> "not_called"]
    /\ call_lock = [r \in Calls |-> 0]
    /\ threadPc = [r \in Calls |-> [c \in CallTasks |-> "unsubmitted"]]

\* lines 229-244 and 455-456: a caller enters render_final_video; the call
\* makes its own whisper_lock and submits its tasks
CallRender(r) ==
    /\ callPc[r] = "not_called"
    /\ callPc' = [callPc EXCEPT ![r] = "running"]
    /\ call_lock' = [call_lock EXCEPT ![r] = 0]
    /\ threadPc' = [threadPc EXCEPT ![r] = [c \in CallTasks |-> "pending"]]
    /\ UNCHANGED <<alignVars, renderVars, playbackVars, uploaderVars, llmVars>>

\* lines 246-261: a worker runs the task up to the with statement
StartConversation(r, c) ==
    /\ threadPc[r][c] = "pending"
    /\ threadPc' = [threadPc EXCEPT ![r][c] = "wait_lock"]
    /\ UNCHANGED <<callPc, call_lock, alignVars, renderVars, playbackVars, uploaderVars, llmVars>>

\* lines 262-263 and 31: the lock of the task's own call is taken and
\* whisper_model.transcribe is entered
EnterTranscribe(r, c) ==
    /\ threadPc[r][c] = "wait_lock"
    /\ LockFree(call_lock[r])
    /\ call_lock' = [call_lock EXCEPT ![r] = c]
    /\ threadPc' = [threadPc EXCEPT ![r][c] = "transcribe"]
    /\ UNCHANGED <<callPc, alignVars, renderVars, playbackVars, uploaderVars, llmVars>>

\* lines 31-159 and 263: transcribe returns, the alignment ends, the lock of
\* the call is released
LeaveTranscribe(r, c) ==
    /\ threadPc[r][c] = "transcribe"
    /\ call_lock' = [call_lock EXCEPT ![r] = LockReleased(@)]
    /\ threadPc' = [threadPc EXCEPT ![r][c] = "aligned"]
    /\ UNCHANGED <<callPc, alignVars, renderVars, playbackVars, uploaderVars, llmVars>>

ProcessNext ==
    \/ \E r \in Calls : CallRender(r)
    \/ \E r \in Calls, c \in CallTasks : StartConversation(r, c)
    \/ \E r \in Calls, c \in CallTasks : EnterTranscribe(r, c)
    \/ \E r \in Calls, c \in CallTasks : LeaveTranscribe(r, c)

ProcessSpec == ProcessInit /\ [][ProcessNext]_vars

-----------------------------------------------------------------------------
(* process_queue of hetzner_youtube_uploader.py, run again and again over    *)
(* one queue directory. A package is a metadata file with the video and the  *)
(* thumbnail it names; the packages are numbered by the age of their         *)
(* metadata file, package 1 being the oldest.                                *)

NumPackages == 3
MaxUploads == 2

Packages == 1..NumPackages
Languages == {"German", "Spanish"}

QueueFile(kind, p) == [kind |-> kind, pkg |-> p]
VideoFile(p) == QueueFile("video", p)           \* line 171
ThumbnailFile(p) == QueueFile("thumbnail", p)   \* line 172
JsonFile(p) == QueueFile("json", p)             \* line 170
PackageFiles(p) == {VideoFile(p), ThumbnailFile(p), JsonFile(p)}

\* how the calls made for a package end:
\*   "ok"               every call returns
\*   "upload_raises"    the video upload raises a non-retriable HttpError
\*   "upload_exits"     the video upload calls exit() (lines 102, 115)
\*   "thumbnail_raises" the video upload returns, the thumbnail upload raises
\*   "remove_raises"    the uploads return, os.remove(video_file) raises
Services == {"ok", "upload_raises", "upload_exits", "thumbnail_raises",
             "remove_raises"}

\* lines 167-168: the first entry after the sort by modification time
Oldest(S) == CHOOSE p \in S : \A q \in S : p <= q

\* lines 102, 115, 208: exit() raises SystemExit, which is no Exception; it
\* leaves the loop and process_queue, and ends the process
ExitPropagates(pc) == "exited"

\* the video upload of a package returns a video id
UploadReturns(p) ==
    service[p] \in {"ok", "thumbnail_raises", "remove_raises"}

\* lines 193-205 run to their end
BodyCompletes(p) ==
    \/ service[p] = "ok"
    \/ service[p] = "thumbnail_raises" /\ ThumbnailFile(p) \notin queue

UploadInit ==
    /\ AlignIdle
    /\ RenderIdle
    /\ PlaybackIdle
    /\ ProcessIdle
    /\ LlmIdle
    /\ language \in [Packages -> Languages]
    /\ service \in [Packages -> Services]
    \* every package has its metadata file; at most one video and at most one
    \* thumbnail are not there
    /\ \E novideo \in {{}} \cup {{VideoFile(p)} : p \in Packages},
          nothumb \in {{}} \cup {{ThumbnailFile(p)} : p \in Packages} :
          queue = (UNION {PackageFiles(p) : p \in Packages})
                      \ (novideo \cup nothumb)
    /\ uploaded = [p \in Packages |-> 0]
    /\ files_by_language = [l \in Languages |-> {}]
    /\ todo = {}
    /\ runPc = "idle"

\* lines 132-162: a run starts, lists the metadata files and groups them by
\* language; it returns at once when there is none
StartRun ==
    /\ runPc \in {"idle", "exited"}
    /\ LET json_files == {p \in Packages : JsonFile(p) \in queue}
           grouped == [l \in Languages |->
                          {p \in json_files : language[p] = l}]
       IN  /\ files_by_language' = grouped
           /\ todo' = {l \in Languages : grouped[l] # {}}
           /\ runPc' = IF json_files = {} THEN "idle" ELSE "running"
    /\ UNCHANGED <<queue, language, service, uploaded>>
    /\ UNCHANGED <<alignVars, renderVars, playbackVars, processVars, llmVars>>

\* lines 165-209: one pass of the loop, for the language the dict yields next
ProcessLanguage(l) ==
    /\ runPc = "running"
    /\ l \in todo
    /\ todo' = todo \ {l}
    /\ LET target == Oldest(files_by_language[l])
       IN  IF VideoFile(target) \notin queue
           THEN \* lines 174-176: continue
                UNCHANGED <<queue, uploaded, runPc>>
           ELSE /\ uploaded' =
                      [uploaded EXCEPT ![target] =
                          IF UploadReturns(target)
                          THEN Min(MaxUploads, @ + 1) ELSE @]
                /\ queue' = IF BodyCompletes(target)
                            THEN queue \ PackageFiles(target)
                            ELSE queue
                /\ runPc' = IF service[target] = "upload_exits"
                            THEN ExitPropagates(runPc)
                            ELSE runPc
    /\ UNCHANGED <<language, service, files_by_language>>
    /\ UNCHANGED <<alignVars, renderVars, playbackVars, processVars, llmVars>>

\* line 211: the loop is through, the run returns
EndRun ==
    /\ runPc = "running"
    /\ todo = {}
    /\ runPc' = "idle"
    /\ UNCHANGED <<queue, language, service, uploaded, files_by_language, todo>>
    /\ UNCHANGED <<alignVars, renderVars, playbackVars, processVars, llmVars>>

UploadNext ==
    \/ StartRun
    \/ \E l \in Languages : ProcessLanguage(l)
    \/ EndRun

UploadSpec == UploadInit /\ [][UploadNext]_vars

\* the script is run again and again, and every run goes on until it returns
\* or exits
FairUploadSpec == UploadSpec /\ WF_vars(UploadNext)

-----------------------------------------------------------------------------
(* generate_video_content of llm.py: one task per conversation idea, each    *)
(* calling generate_conversation_dialogue with its retry loop.               *)

NumIdeas == 2
max_retries == 3

Ideas == 1..NumIdeas

\* how one call of client.models.generate_content ends: with a response, or
\* with an exception whose text holds "429" or does not
Outcomes == {"response", "error", "error_429"}

\* line 117: "429" in str(e) or attempt < max_retries - 1
Retry(outcome, n) == outcome = "error_429" \/ n < max_retries - 1

LlmInit ==
    /\ AlignIdle
    /\ RenderIdle
    /\ PlaybackIdle
    /\ ProcessIdle
    /\ UploaderIdle
    /\ attempt = [i \in Ideas |-> 0]
    /\ retry_delay = [i \in Ideas |-> 5]          \* line 102
    /\ errors = [i \in Ideas |-> <<>>]
    /\ dialogue = [i \in Ideas |-> "pending"]
    /\ ideaPc = [i \in Ideas |-> "generating"]

\* lines 104-122: one pass of the retry loop. The response is returned; an
\* exception is slept over or re-raised; when the loop has run out after a
\* sleep the function ends without a return statement and gives None
Attempt(i) ==
    /\ ideaPc[i] = "generating"
    /\ dialogue[i] = "pending"
    /\ attempt[i] < max_retries
    /\ \E outcome \in Outcomes :
          IF outcome = "response"
          THEN /\ dialogue' = [dialogue EXCEPT ![i] = "Conversation"]
               /\ UNCHANGED <<attempt, retry_delay, errors>>
          ELSE /\ errors' = [errors EXCEPT ![i] = Append(@, outcome)]
               /\ IF Retry(outcome, attempt[i])
                  THEN /\ retry_delay' = [retry_delay EXCEPT ![i] = 2 * @]
                       /\ attempt' = [attempt EXCEPT ![i] = @ + 1]
                       /\ dialogue' = [dialogue EXCEPT ![i] =
                              IF attempt[i] + 1 < max_retries
                              THEN "pending" ELSE "None"]
                  ELSE /\ dialogue' = [dialogue EXCEPT ![i] = "raised"]
                       /\ UNCHANGED <<attempt, retry_delay>>
    /\ UNCHANGED ideaPc
    /\ UNCHANGED <<alignVars, renderVars, playbackVars, processVars,
                   uploaderVars>>

\* lines 157-168: process_idea after the call: the exception goes on, the
\* outline's title and genders are set on the conversation (an AttributeError
\* on None), the pair is returned
FinishIdea(i) ==
    /\ ideaPc[i] = "generating"
    /\ dialogue[i] # "pending"
    /\ ideaPc' = [ideaPc EXCEPT ![i] =
                    CASE dialogue[i] = "Conversation" -> "returned"
                      [] dialogue[i] = "raised" -> "raised"
                      [] dialogue[i] = "None" -> "attribute_error"]
    /\ UNCHANGED <<attempt, retry_delay, errors, dialogue>>
    /\ UNCHANGED <<alignVars, renderVars, playbackVars, processVars,
                   uploaderVars>>

LlmNext ==
    \/ \E i \in Ideas : Attempt(i)
    \/ \E i \in Ideas : FinishIdea(i)

LlmSpec == LlmInit /\ [][LlmNext]_vars

-----------------------------------------------------------------------------
(* Claims on get_exact_sentence_timestamps (AlignSpec) *)

NonDegenerateResult ==
    alignPc = "returned" /\ ~Degenerate(known_sentences, whisper_words)

\* C1: on the non-degenerate path every returned sentence ends no later than
\* the next one starts: end_i <= start_{i+1} for every adjacent pair.
C1_AdjacentNoOverlap ==
    NonDegenerateResult =>
        \A i \in 1..(Len(sentence_timestamps) - 1) :
            sentence_timestamps[i].end <= sentence_timestamps[i + 1].start

\* C2: every sentence the normalizer returns lasts at least 0.1 s.
C2_MinDuration ==
    NonDegenerateResult =>
        \A i \in 1..Len(sentence_timestamps) :
            sentence_timestamps[i].duration >= Ms(100)

\* C3: the normalizer run over its own output changes nothing.
C3_Idempotent ==
    [][alignPc = "returned" /\ alignPc' = "renormalized"
          => sentence_timestamps' = sentence_timestamps]_vars

\* C10: with no word from the adapter, N sentences give exactly N entries,
\* entry k (from 0) being [2.0 k, 2.0 k + 2.0] with duration 2.0.
C10_EmptyStreamFallback ==
    (alignPc = "returned" /\ whisper_words = <<>>) =>
        /\ Len(sentence_timestamps) = Len(known_sentences)
        /\ \A k \in 1..Len(sentence_timestamps) :
              /\ sentence_timestamps[k].start = Ms(2000) * (k - 1)
              /\ sentence_timestamps[k].end = Ms(2000) * (k - 1) + Ms(2000)
              /\ sentence_timestamps[k].duration = Ms(2000)

\* three sentences with words, no word heard, the fallback returned
C10_Witness ==
    /\ alignPc = "returned"
    /\ whisper_words = <<>>
    /\ Len(known_sentences) = 3
    /\ \A i \in 1..3 : known_sentences[i] # <<>>
    /\ Len(sentence_timestamps) = 3

RECURSIVE WordsBefore(_, _)
\* the number of target words in the sentences before sentence i
WordsBefore(sentences, i) ==
    IF i <= 1 THEN 0
    ELSE Len(sentences[i - 1]) + WordsBefore(sentences, i - 1)

\* the word stream is the target words, one for one
ExactMatchReturned ==
    /\ NonDegenerateResult
    /\ LET targets == target_words_with_idx(known_sentences)
       IN  [k \in 1..Len(targets) |-> targets[k][2]]
               = [k \in 1..Len(whisper_words) |-> whisper_words[k].text]

FirstToken(i) == whisper_words[WordsBefore(known_sentences, i) + 1]
LastToken(i) == whisper_words[WordsBefore(known_sentences, i + 1)]

\* C11 as stated: in the exact-match case every sentence is returned with the
\* start of its first matched word and the end of its last matched word.
C11_ExactBoundariesReturned ==
    ExactMatchReturned =>
        \A i \in 1..Len(known_sentences) :
            known_sentences[i] # <<>> =>
                /\ sentence_timestamps[i].start = FirstToken(i).start
                /\ sentence_timestamps[i].end = LastToken(i).end

\* C11, amended: in the exact-match case every sentence is assigned exactly
\* its own words; its range before the repair of lines 126-157 is [start of
\* its first word, end of its last word] when that start is not before the
\* previous sentence's start and that end is after it; the first sentence's
\* start is returned as it is, and so is the whole range of a lone sentence
\* whose word does not end before it starts.
C11_ExactBoundariesBeforeRepair ==
    ExactMatchReturned =>
        /\ \A i \in 1..Len(known_sentences) :
              known_sentences[i] # <<>> =>
                  /\ sentence_indices[i] =
                         [k \in 1..Len(known_sentences[i]) |->
                             WordsBefore(known_sentences, i) + k - 1]
                  /\ (\/ i = 1
                      \/ /\ FirstToken(i).start >= raw_timestamps[i - 1].start
                         /\ LastToken(i).end > FirstToken(i).start)
                     => /\ raw_timestamps[i].start = FirstToken(i).start
                        /\ raw_timestamps[i].end = LastToken(i).end
        /\ known_sentences[1] # <<>> =>
              sentence_timestamps[1].start = FirstToken(1).start
        /\ (Len(known_sentences) = 1 /\ LastToken(1).end >= FirstToken(1).start)
              => /\ sentence_timestamps[1].start = FirstToken(1).start
                 /\ sentence_timestamps[1].end = LastToken(1).end

\* two sentences matched word for word, the boundary between them padded
C11_Witness ==
    /\ ExactMatchReturned
    /\ Len(known_sentences) >= 2
    /\ \A i \in 1..Len(known_sentences) : known_sentences[i] # <<>>
    /\ raw_timestamps[1].end = LastToken(1).end
    /\ sentence_timestamps[1].end > LastToken(1).end

\* C12: a pair the repair loop meets with end_i > start_{i+1} gets both
\* boundaries set to (end_i + start_{i+1}) / 2; the first start and the last
\* end are not touched; 1.2 / 1.0 gives 1.1 for both.
C12_OverlapToMidpoint ==
    NonDegenerateResult =>
        LET n == Len(raw_timestamps)
            ex == RepairPairs(<<
                [text |-> <<>>, start |-> Ms(0), end |-> Ms(1200),
                 duration |-> Ms(1200)],
                [text |-> <<>>, start |-> Ms(1000), end |-> Ms(2000),
                 duration |-> Ms(1000)] >>)
        IN  /\ Len(repaired_timestamps) = n
            /\ \A i \in 1..(n - 1) :
                  raw_timestamps[i].end > raw_timestamps[i + 1].start =>
                      /\ 2 * repaired_timestamps[i].end =
                             raw_timestamps[i].end + raw_timestamps[i + 1].start
                      /\ repaired_timestamps[i + 1].start =
                             repaired_timestamps[i].end
            /\ repaired_timestamps[1].start = raw_timestamps[1].start
            /\ repaired_timestamps[n].end = raw_timestamps[n].end
            /\ ex[1].end = Ms(1100) /\ ex[2].start = Ms(1100)
            /\ ex[1].start = Ms(0) /\ ex[2].end = Ms(2000)

\* a pair that overlapped before the repair loop
C12_Witness ==
    /\ NonDegenerateResult
    /\ \E i \in 1..(Len(raw_timestamps) - 1) :
          /\ raw_timestamps[i].end > raw_timestamps[i + 1].start
          /\ repaired_timestamps[i].end < raw_timestamps[i].end
          /\ repaired_timestamps[i + 1].start > raw_timestamps[i + 1].start

\* C13: a pair the repair loop meets with end_i <= start_{i+1} gets end_i
\* raised and start_{i+1} lowered by min(0.1, gap / 2) and does not overlap
\* after the loop; a touching pair is left as it is; 1.0 / 1.5 gives
\* 1.1 / 1.4.
C13_GapPadded ==
    NonDegenerateResult =>
        LET n == Len(raw_timestamps)
            ex == RepairPairs(<<
                [text |-> <<>>, start |-> Ms(0), end |-> Ms(1000),
                 duration |-> Ms(1000)],
                [text |-> <<>>, start |-> Ms(1500), end |-> Ms(2000),
                 duration |-> Ms(500)] >>)
        IN  /\ \A i \in 1..(n - 1) :
                  LET gap == raw_timestamps[i + 1].start - raw_timestamps[i].end
                      pad == IF gap >= Ms(200) THEN Ms(100) ELSE gap \div 2
                  IN  gap >= 0 =>
                      /\ repaired_timestamps[i].end = raw_timestamps[i].end + pad
                      /\ repaired_timestamps[i + 1].start =
                             raw_timestamps[i + 1].start - pad
                      /\ repaired_timestamps[i].end
                             <= repaired_timestamps[i + 1].start
                      /\ gap = 0 =>
                             /\ repaired_timestamps[i].end = raw_timestamps[i].end
                             /\ repaired_timestamps[i + 1].start =
                                    raw_timestamps[i + 1].start
            /\ ex[1].end = Ms(1100) /\ ex[2].start = Ms(1400)

\* one pair with a gap over 0.2 s and one touching pair in the same result
C13_Witness ==
    /\ NonDegenerateResult
    /\ \E i, j \in 1..(Len(raw_timestamps) - 1) :
          /\ raw_timestamps[i + 1].start - raw_timestamps[i].end > Ms(200)
          /\ repaired_timestamps[i].end = raw_timestamps[i].end + Ms(100)
          /\ raw_timestamps[j + 1].start = raw_timestamps[j].end
          /\ repaired_timestamps[j].end = raw_timestamps[j].end

\* C14: every word of an insert run is assigned to the sentence of the target
\* word just before the insertion point, or to the first sentence when the
\* run comes before every target word.
C14_InsertToPrecedingSentence ==
    NonDegenerateResult =>
        LET targets == target_words_with_idx(known_sentences)
            ops == get_opcodes([k \in 1..Len(targets) |-> targets[k][2]],
                       [k \in 1..Len(whisper_words) |-> whisper_words[k].text])
        IN  \A o \in 1..Len(ops) :
                ops[o][1] = "insert" =>
                    LET i1 == ops[o][2]
                        preceding == IF i1 > 0 THEN targets[i1][1] ELSE 0
                    IN  \A j \in ops[o][4]..(ops[o][5] - 1) :
                            \E k \in DOMAIN sentence_indices[preceding + 1] :
                                sentence_indices[preceding + 1][k] = j

\* C15: the raw range of a sentence with words assigned starts at the least
\* start and ends at the greatest end of those words.
C15_RawRangeIsMinMax ==
    NonDegenerateResult =>
        \A i \in 1..Len(known_sentences) :
            sentence_indices[i] # <<>> =>
                LET toks == {whisper_words[sentence_indices[i][k] + 1] :
                                 k \in DOMAIN sentence_indices[i]}
                IN  /\ \A t \in toks : raw_timestamps[i].start <= t.start
                    /\ \E t \in toks : raw_timestamps[i].start = t.start
                    /\ \A t \in toks : raw_timestamps[i].end >= t.end
                    /\ \E t \in toks : raw_timestamps[i].end = t.end

\* C16: a sentence with no word assigned gets the raw range [end of the
\* previous raw range, that + 1.0 s], from 0 for the first sentence, and the
\* call returns one entry per sentence.
C16_NoWordSlot ==
    NonDegenerateResult =>
        /\ Len(sentence_timestamps) = Len(known_sentences)
        /\ Len(raw_timestamps) = Len(known_sentences)
        /\ \A i \in 1..Len(known_sentences) :
              sentence_indices[i] = <<>> =>
                  /\ raw_timestamps[i].start =
                         (IF i = 1 THEN 0 ELSE raw_timestamps[i - 1].end)
                  /\ raw_timestamps[i].end = raw_timestamps[i].start + Ms(1000)
                  /\ raw_timestamps[i].duration = Ms(1000)

\* a first and a later sentence without words around one that has a word
C16_Witness ==
    /\ NonDegenerateResult
    /\ Len(known_sentences) = 3
    /\ sentence_indices[1] = <<>>
    /\ sentence_indices[2] # <<>>
    /\ sentence_indices[3] = <<>>
    /\ raw_timestamps[3].start = raw_timestamps[2].end

-----------------------------------------------------------------------------
(* Claims on render_final_video (Spec) *)

\* C4: within one call at most one conversation task is inside the
\* alignment step at any time.
C4_OneTaskAligning ==
    Cardinality({c \in Convs : taskPc[c] = "aligning"}) <= 1

\* one task aligns while another waits for the lock
C4_Witness ==
    \E c, d \in Convs : taskPc[c] = "aligning" /\ taskPc[d] = "wait_lock"

\* C5: the final concat list names the clip of conversation k at position k,
\* whatever the order in which the tasks completed.
C5_ConcatInInputOrder ==
    mainPc \in {"concat", "cleanup", "returned"} =>
        final_concat_list = [k \in Convs |-> ConvOutput(k)]

\* the list is written after the last conversation's task completed first
C5_Witness ==
    /\ mainPc = "concat"
    /\ yielded[1] = NumConvs
    /\ Len(final_concat_list) = NumConvs

\* C6: once a conversation task has failed, the final concat is never run
\* and the call never returns an output path; when nothing more can happen the
\* call has raised.
C6_FailureSurfaced ==
    (\E c \in Convs : taskPc[c] = "failed") =>
        /\ ~concat_invoked
        /\ final_concat_list = <<>>
        /\ mainPc \notin {"concat", "cleanup", "returned"}
        /\ (~ENABLED Next => mainPc = "raised")

\* the call has raised for a failed task while another task completed
C6_Witness ==
    /\ mainPc = "raised"
    /\ \E c, d \in Convs : taskPc[c] = "failed" /\ taskPc[d] = "done"

\* C7: when the call has finished, by returning or by raising, no
\* intermediate artifact is left on disk.
C7_NoArtifactLeft ==
    mainPc \in {"returned", "raised"} =>
        \A f \in files : f.kind \notin IntermediateKinds

\* the returning path alone leaves no intermediate artifact
C7_ReturnLeavesNothing ==
    mainPc = "returned" => \A f \in files : f.kind \notin IntermediateKinds

\* the stages after the alignment step
AfterAlignment == {"rebuild", "slow_load", "encode"}

\* C19: the lock is held by a task exactly while that task is in its
\* alignment step, so never during audio rebuilding, frame compositing or
\* encoding and never after a failure; and a task that waits for the lock
\* gets it.
C19_LockOnlyWhileAligning ==
    /\ [](\A c \in Convs : (whisper_lock = c) <=> (taskPc[c] = "aligning"))
    /\ [](whisper_lock \in Convs \cup {0})
    /\ \A c \in Convs : (taskPc[c] = "wait_lock") ~> (taskPc[c] # "wait_lock")

\* two tasks past their alignment at the same time, the lock free, after a
\* third task left its alignment by an exception
C19_Witness ==
    /\ whisper_lock = 0
    /\ \E c, d, f \in Convs :
          /\ c # d
          /\ taskPc[c] \in AfterAlignment
          /\ taskPc[d] \in AfterAlignment
          /\ taskPc[f] = "failed"
          /\ AudioPath(f) \notin files

\* a task fails only over its own inputs or its own re-speed output
OwnFailure(c) ==
    \/ BgPath(c) \notin files
    \/ AudioPath(c) \notin files
    \/ /\ taskLine[c] < dialogue_len[c]
       /\ TempOut(c, taskLine[c]) \notin files

\* C21: a failing task cancels and interrupts no other task: the call
\* leaves the pool, also on a task's exception, only when every submitted task
\* has run to its own end, and a task that ended in failure failed over its
\* own files, never because another task failed.
C21_NoCancellation ==
    /\ mainPc = "raised" => \A c \in Convs : Finished(taskPc[c])
    /\ \A c \in Convs : taskPc[c] = "failed" => OwnFailure(c)
    /\ \A c \in Convs : taskPc[c] = "done" =>
          /\ taskLine[c] = dialogue_len[c]
          /\ ConvOutput(c) \in Range(local_cleanup[c])

\* the first task failed and was the only one handed out; the two others
\* still ran to their end before the call raised
C21_Witness ==
    /\ mainPc = "raised"
    /\ yielded = <<1>>
    /\ taskPc[1] = "failed"
    /\ taskPc[2] = "done"
    /\ taskPc[3] = "done"

\* C22: an encoder run that failed is neither detected nor retried: the
\* task leaves its encoding step once, as done, whether the clip was written
\* or not, its clip path is stored, and the final concat runs with that path.
C22_EncoderFailureUnnoticed ==
    /\ [][\A c \in Convs :
             (taskPc[c] = "encode" /\ taskPc'[c] # "encode") =>
                 /\ taskPc'[c] = "done"
                 /\ Last(local_cleanup'[c]) = ConvOutput(c)]_vars
    /\ [](\A c \in Convs :
             (c \in Range(yielded) /\ taskPc[c] = "done") =>
                 temp_videos[c] = ConvOutput(c))
    /\ [](concat_invoked => \A c \in Convs : final_concat_list[c] = ConvOutput(c))

\* the concat has run with the path of a clip that the encoder never wrote
C22_Witness ==
    /\ mainPc = "cleanup"
    /\ concat_invoked
    /\ \E c \in Convs :
          /\ ConvOutput(c) \notin files
          /\ final_concat_list[c] = ConvOutput(c)

\* C23: when the concat list is written, and from then on, every task
\* has left its encoder run and was handed out, and every slot of the result
\* array holds a clip path.
C23_ConcatAfterAllTasks ==
    mainPc \in {"concat", "cleanup", "returned"} =>
        /\ \A c \in Convs : taskPc[c] = "done" /\ c \in Range(yielded)
        /\ \A c \in Convs : temp_videos[c] # None
        /\ \A k \in DOMAIN final_concat_list : final_concat_list[k] # None

\* the list was written with the first conversation's task handed out last
C23_Witness ==
    /\ mainPc = "concat"
    /\ yielded[NumConvs] = 1
    /\ \A c \in Convs : temp_videos[c] # None

\* the working files a task has on its cleanup list or in its re-speed step
WrittenBy(c) ==
    (Range(local_cleanup[c]) \ InputFiles)
        \cup (IF taskPc[c] = "slow_load"
              THEN {TempIn(c, taskLine[c]), TempOut(c, taskLine[c])} ELSE {})

\* C24: within one call no two conversation tasks write the same
\* working file path.
C24_OwnWorkingFiles ==
    \A c, d \in Convs : c # d => WrittenBy(c) \cap WrittenBy(d) = {}

\* two tasks have each written their frames, audio and instruction file
C24_Witness ==
    \E c, d \in Convs :
        /\ c # d
        /\ FramePath(c, 0) \in WrittenBy(c)
        /\ FramePath(d, 0) \in WrittenBy(d)
        /\ ConvOutput(c) \in WrittenBy(c)

\* C27: the call deletes only files that it created: after it returns
\* every conversation's input audio and input background image still exist.
C27_InputsSurvive ==
    mainPc = "returned" => InputFiles \subseteq files

-----------------------------------------------------------------------------
(* Claims on the shared speech model (ProcessSpec) *)

InTranscribe ==
    {rc \in Calls \X CallTasks : threadPc[rc[1]][rc[2]] = "transcribe"}

\* C20: over all the calls running in the process at most one thread is
\* inside the transcribe call of the shared model.
C20_OneThreadInTranscribe == Cardinality(InTranscribe) <= 1

\* within one call at most one task is inside transcribe
C20_OnePerCall ==
    \A r \in Calls :
        Cardinality({c \in CallTasks : threadPc[r][c] = "transcribe"}) <= 1

-----------------------------------------------------------------------------
(* Claims on the replay audio and its timeline (PlaybackSpec) *)

Abs(x) == IF x < 0 THEN -x ELSE x

RECURSIVE SumDurations(_, _)
SumDurations(segs, k) ==
    IF k = 0 THEN 0 ELSE segs[k].duration + SumDurations(segs, k - 1)

\* C8: the cursor after the last step is the sum over the lines of normal
\* clip + 1.0 s + slow clip + 2.0 s, plus 0.5 s, and differs from the length
\* of the composite audio by at most 10 ms.
C8_CursorMatchesAudio ==
    pbPc = "built" =>
        /\ current_new_time = SumDurations(new_timestamps, Len(new_timestamps))
                                  + 3000 * Len(timestamps) + 500
        /\ Abs(current_new_time * FramesPerMs - new_audio) <= 10 * FramesPerMs

\* C9: N lines give exactly 2N segments; segments 2i and 2i+1 carry line i,
\* isRepeated false then true; each segment runs from the cursor before its
\* clip to the cursor after it, the 1.0 s and 2.0 s silences lying between
\* segments and in none of them.
C9_TwoSegmentsPerLine ==
    pbPc = "built" =>
        LET n == Len(timestamps) IN
        /\ Len(new_timestamps) = 2 * n
        /\ Len(new_dialogue) = 2 * n
        /\ Len(is_repeated_flags) = 2 * n
        /\ \A i \in 0..(n - 1) :
              LET clip == SentenceAudio(timestamps[i + 1], orig_audio_len_ms)
                  normal == new_timestamps[2 * i + 1]
                  slow == new_timestamps[2 * i + 2]
              IN  /\ new_dialogue[2 * i + 1] = i
                  /\ new_dialogue[2 * i + 2] = i
                  /\ is_repeated_flags[2 * i + 1] = FALSE
                  /\ is_repeated_flags[2 * i + 2] = TRUE
                  /\ normal.start = IF i = 0 THEN 0
                                    ELSE new_timestamps[2 * i].end + 2000
                  /\ normal.end = normal.start + LenMs(clip)
                  /\ slow.start = normal.end + 1000
                  /\ slow.end = slow.start
                                   + LenMs(SlowAudio(clip, stretch_extra[i + 1]))
                  /\ normal.duration = normal.end - normal.start
                  /\ slow.duration = slow.end - slow.start
        /\ n > 0 => current_new_time = new_timestamps[2 * n].end + 2000 + 500

\* a dialogue of two different lines, built
C9_Witness ==
    /\ pbPc = "built"
    /\ Len(timestamps) = 2
    /\ timestamps[1] # timestamps[2]
    /\ Len(new_timestamps) = 4

RECURSIVE C17_Instructions(_, _, _, _)
\* the instructions of segments k.. from cursor t, then the one up to T
C17_Instructions(segs, k, t, T) ==
    IF k > Len(segs)
    THEN IF t < T THEN <<FileLine(BgImage), DurationLine(T - t)>> ELSE <<>>
    ELSE (IF segs[k].start > t
          THEN <<FileLine(BgImage), DurationLine(segs[k].start - t)>>
          ELSE <<>>)
         \o << FileLine(FrameImage(k - 1)),
               DurationLine(IF segs[k].end - segs[k].start > 100
                            THEN segs[k].end - segs[k].start ELSE 100) >>
         \o C17_Instructions(segs, k + 1, segs[k].end, T)

\* C17: with the cursor t from 0, each segment in order gives a background
\* instruction of segment.start - t exactly when segment.start > t, then one
\* still of max(0.1, segment.end - segment.start), then t = segment.end; after
\* the last segment a background instruction of T - t exactly when t < T.
C17_AssemblerInstructions ==
    pbPc = "assembled" =>
        /\ concat_lines =
               C17_Instructions(new_timestamps, 1, 0, current_new_time)
                   \o <<FileLine(BgImage)>>
        /\ Len(new_timestamps) > 0 =>
               concat_current_time = Last(new_timestamps).end

\* two lines assembled, one of them so short that its still is held for the
\* 0.1 s floor, with the background shown between the segments
C17_Witness ==
    /\ pbPc = "assembled"
    /\ Len(new_timestamps) = 4
    /\ \E k \in 1..4 : new_timestamps[k].end - new_timestamps[k].start < 100
    /\ \E k \in 1..Len(concat_lines) :
          concat_lines[k] = DurationLine(100)
    /\ \E k \in 1..Len(concat_lines) :
          concat_lines[k] = FileLine(BgImage) /\ k < Len(concat_lines) - 2

\* C18: the last entry of the instruction file has no duration and names the
\* image of the last instruction that has one, for every dialogue length.
C18_TrailingImageRepeated ==
    pbPc = "assembled" =>
        LET n == Len(concat_lines)
        IN  /\ n >= 3
            /\ concat_lines[n].kind = "file"
            /\ concat_lines[n - 1].kind = "duration"
            /\ concat_lines[n - 2].kind = "file"
            /\ concat_lines[n].image = concat_lines[n - 2].image

\* the file of a dialogue without lines: the background, 0.5 s, the background
C18_Witness ==
    /\ pbPc = "assembled"
    /\ timestamps = <<>>
    /\ concat_lines = <<FileLine(BgImage), DurationLine(500), FileLine(BgImage)>>

RECURSIVE HoldSum(_, _)
\* the hold durations of the first n instructions, in ms
HoldSum(lines, n) ==
    IF n = 0 THEN 0 ELSE lines[n].ms + HoldSum(lines, n - 1)

\* the position of the still of segment k in the instruction list
StillIndex(k) ==
    CHOOSE j \in 1..Len(concat_lines) :
        concat_lines[j] = FileLine(FrameImage(k - 1))

\* C26: in the assembled instruction list the hold durations before the
\* still of segment k add up to segment k's start, and all the hold durations
\* add up to the composite duration T, for every playback timeline.
C26_CaptionsOnTime ==
    pbPc = "assembled" =>
        /\ \A k \in 1..Len(new_timestamps) :
              HoldSum(concat_lines, StillIndex(k) - 1) = new_timestamps[k].start
        /\ HoldSum(concat_lines, Len(concat_lines)) = current_new_time

-----------------------------------------------------------------------------
(* Claims on process_queue (UploadSpec, FairUploadSpec) *)

\* C25: a package's files leave the queue only after its video upload,
\* and its thumbnail upload when it has a thumbnail, returned; when a step
\* fails all of the package's files stay; and a run ends only when it has been
\* through every language it found, also after a failure.
C25_FailureKeepsQueueAndGoesOn ==
    /\ \A p \in Packages :
          JsonFile(p) \notin queue =>
              /\ uploaded[p] >= 1
              /\ PackageFiles(p) \cap queue = {}
    /\ \A p \in Packages :
          (JsonFile(p) \in queue /\ ~BodyCompletes(p) /\ uploaded[p] >= 1) =>
              VideoFile(p) \in queue
    /\ runPc \in {"idle", "exited"} => todo = {}

\* C28: over all the runs each queued video is uploaded at most once.
C28_UploadedAtMostOnce ==
    \A p \in Packages : uploaded[p] <= 1

\* C29: when every upload succeeds and the runs go on, every queued
\* package whose video file is there is eventually uploaded and removed.
C29_PresentPackageUploaded ==
    \A p \in Packages :
        ( /\ \A q \in Packages : service[q] = "ok"
          /\ VideoFile(p) \in queue
          /\ JsonFile(p) \in queue )
            ~> (uploaded[p] >= 1 /\ PackageFiles(p) \cap queue = {})

-----------------------------------------------------------------------------
(* Claims on generate_conversation_dialogue (LlmSpec) *)

\* C30: the function makes at most 3 attempts and ends by returning the
\* Conversation of a successful attempt or by raising the last attempt's
\* exception; it never ends without a Conversation, whatever the texts of the
\* errors.
C30_ConversationOrRaise ==
    \A i \in Ideas :
        /\ Len(errors[i]) <= max_retries
        /\ attempt[i] <= max_retries
        /\ dialogue[i] \in {"pending", "Conversation", "raised"}
        /\ dialogue[i] = "raised" => Len(errors[i]) = max_retries
        /\ ideaPc[i] \in {"generating", "returned", "raised"}

=============================================================================
